---- MODULE Spec2Model ----
(***************************************************************************)
(* Model of core/src/algorithms/approximate.rs: the Approximate trait for  *)
(* Line and Arc, and the ApproximatedArc iterator.                         *)
(*                                                                         *)
(* Numbers.  An f64 is modelled as an exact fraction <<n, d>> with d > 0;  *)
(* d = 0 encodes the non-finite values: <<0,0>> is NaN, <<1,0>> is +inf    *)
(* and <<-1,0>> is -inf.  Arithmetic is exact (rounding of the mantissa is *)
(* not modelled); NaN and infinities follow IEEE-754 and Rust's f64::max   *)
(* and `as usize` rules.                                                   *)
(*                                                                         *)
(* Angles.  The code measures angles in radians.  Every angle computation  *)
(* in this file is linear (ratios, sums, multiples), so the model measures *)
(* angles in degrees, which makes a full turn the integer 360.  acos is    *)
(* the only transcendental function; it is computed by inverting           *)
(* Bhaskara's rational cosine, see ACos.                                   *)
(***************************************************************************)
EXTENDS Integers, Sequences, FiniteSets, TLC

VARIABLES arc, line, tolerance, pc, iter, yielded, swept, nones, acosCalls

vars == <<arc, line, tolerance, pc, iter, yielded, swept, nones, acosCalls>>

(***************************************************************************)
(* Bounds of the model.                                                    *)
(***************************************************************************)
\* sweep angles range over the multiples of 45 degrees in -MaxEighths..MaxEighths
MaxEighths == 8
\* how many times next() is called again after it first returned None
MaxNone == 2

(***************************************************************************)
(* f64 arithmetic on fractions.                                            *)
(***************************************************************************)
NaN == <<0, 0>>
PosInf == <<1, 0>>
NegInf == <<-1, 0>>
Zero == <<0, 1>>
One == <<1, 1>>
Two == <<2, 1>>

F(n) == <<n, 1>>

IAbs(n) == IF n < 0 THEN -n ELSE n

Sgn(n) == IF n < 0 THEN -1 ELSE IF n > 0 THEN 1 ELSE 0

RECURSIVE GCD(_, _)
GCD(a, b) == IF b = 0 THEN a ELSE GCD(b, a % b)

\* the fraction n/d (d # 0) in lowest terms with a positive denominator
Norm(n, d) ==
    LET s == IF d < 0 THEN -1 ELSE 1
        g == GCD(IAbs(n), IAbs(d))
    IN  <<(s * n) \div g, (s * d) \div g>>

IsNaN(a) == a = NaN

IsFinite(a) == a[2] # 0

FNeg(a) == <<-a[1], a[2]>>

FAbs(a) == <<IAbs(a[1]), a[2]>>

FAdd(a, b) ==
    IF IsNaN(a) \/ IsNaN(b) THEN NaN
    ELSE IF a[2] = 0 /\ b[2] = 0 THEN (IF a = b THEN a ELSE NaN)
    ELSE IF a[2] = 0 THEN a
    ELSE IF b[2] = 0 THEN b
    ELSE Norm(a[1] * b[2] + b[1] * a[2], a[2] * b[2])

FSub(a, b) == FAdd(a, FNeg(b))

FMul(a, b) ==
    IF a[2] = 0 \/ b[2] = 0
    THEN (IF a[1] = 0 \/ b[1] = 0 THEN NaN ELSE <<Sgn(a[1]) * Sgn(b[1]), 0>>)
    ELSE Norm(a[1] * b[1], a[2] * b[2])

\* a mutant of FDiv that loses the sign of the quotient
FDivMagnitude(a, b) ==
    IF a[2] = 0 \/ b[2] = 0 \/ b[1] = 0 THEN NaN
    ELSE Norm(IAbs(a[1] * b[2]), IAbs(a[2] * b[1]))

FDiv(a, b) ==
    IF IsNaN(a) \/ IsNaN(b) THEN NaN
    ELSE IF a[2] = 0
         THEN (IF b[2] = 0 THEN NaN
               ELSE <<Sgn(a[1]) * (IF b[1] < 0 THEN -1 ELSE 1), 0>>)
    ELSE IF b[2] = 0 THEN Zero
    ELSE IF b[1] = 0 THEN (IF a[1] = 0 THEN NaN ELSE <<Sgn(a[1]), 0>>)
    ELSE Norm(a[1] * b[2], a[2] * b[1])

\* a <= b on f64: false as soon as one side is NaN
FLe(a, b) ==
    IF IsNaN(a) \/ IsNaN(b) THEN FALSE
    ELSE IF a = b THEN TRUE
    ELSE IF a = NegInf \/ b = PosInf THEN TRUE
    ELSE IF a = PosInf \/ b = NegInf THEN FALSE
    ELSE a[1] * b[2] <= b[1] * a[2]

\* a mutant of FMax that forgets the lower clamp
FMaxFirst(a, b) == a

\* f64::max: the larger argument, and the other argument when one is NaN
FMax(a, b) ==
    IF IsNaN(a) THEN b
    ELSE IF IsNaN(b) THEN a
    ELSE IF FLe(a, b) THEN b ELSE a

\* f64::ceil
FCeil(a) == IF a[2] = 0 THEN a ELSE <<-((-a[1]) \div a[2]), 1>>

\* usize::MAX, the value of a saturating cast of +inf; TLC's largest integer
\* stands for it
UsizeMax == 2147483647

\* `x as usize`: truncates toward zero, saturates, NaN becomes 0
AsUsize(a) ==
    IF IsNaN(a) THEN 0
    ELSE IF a = PosInf THEN UsizeMax
    ELSE IF a[1] < 0 THEN 0
    ELSE a[1] \div a[2]

\* integer square root
ISqrt(v) == CHOOSE d \in 0..180 : d * d <= v /\ v < (d + 1) * (d + 1)

\* f64::acos, in degrees.  Outside [-1, 1] (and for NaN) the result is NaN.
\* On [0, 1] it inverts Bhaskara's cos(d) = (32400 - 4 d^2) / (32400 + d^2),
\* d in degrees, i.e. d^2 = 32400 (1 - x) / (4 + x); on [-1, 0) it uses
\* acos(x) = 180 - acos(-x).
RECURSIVE ACos(_)
ACos(x) ==
    IF ~IsFinite(x) \/ ~FLe(FNeg(One), x) \/ ~FLe(x, One) THEN NaN
    ELSE IF x[1] < 0 THEN FSub(F(180), ACos(FNeg(x)))
    ELSE F(ISqrt((32400 * (x[2] - x[1])) \div (4 * x[2] + x[1])))

(***************************************************************************)
(* The primitives the algorithm reads: Point2D, Line and Arc.              *)
(***************************************************************************)
Points == {<<0, 0>>, <<5, 5>>}

Lines == [start : Points, end : Points]

Radii == {F(0), F(50), F(100)}

StartAngles == {F(0), F(90), F(360)}

SweepAngles == {F(45 * k) : k \in -MaxEighths..MaxEighths}

Arcs == [centre : {<<0, 0>>}, radius : Radii,
         start_angle : StartAngles, sweep_angle : SweepAngles]

Tolerances == {F(-10), F(0), F(10), F(50), F(100), F(250)}

\* Arc::point_at: the point of the arc's circle in direction `angle`, i.e.
\* centre + radius * (cos angle, sin angle).  The point is kept in polar form
\* about the centre with the direction reduced modulo the full turn, so two
\* points are equal exactly when their coordinates are.
PointAt(self, angle) ==
    IF ~IsFinite(angle) \/ ~IsFinite(self.radius)
    THEN [centre |-> self.centre, radius |-> NaN, direction |-> NaN]
    ELSE IF self.radius[1] = 0
    THEN [centre |-> self.centre, radius |-> Zero, direction |-> Zero]
    ELSE [centre |-> self.centre, radius |-> self.radius,
          direction |-> Norm(angle[1] % (360 * angle[2]), angle[2])]

\* Arc::start
ArcStart(self) == PointAt(self, self.start_angle)

\* Arc::end
ArcEnd(self) == PointAt(self, FAdd(self.start_angle, self.sweep_angle))

(***************************************************************************)
(* <Line as Approximate>::approximate and the Chain<Once, Once> it returns.*)
(* A Once is the sequence of the items it still holds (one or none).       *)
(***************************************************************************)
\* a mutant of LineApproximate that chains the end before the start
LineApproximateReversed(self, _tolerance) ==
    [a |-> <<self.end>>, b |-> <<self.start>>]

LineApproximate(self, _tolerance) ==
    [a |-> <<self.start>>, b |-> <<self.end>>]

\* Chain::next: drain the first iterator, then the second
ChainNext(self) ==
    IF self.a # <<>> THEN [self |-> [self EXCEPT !.a = <<>>], item |-> self.a]
    ELSE IF self.b # <<>> THEN [self |-> [self EXCEPT !.b = <<>>], item |-> self.b]
    ELSE [self |-> self, item |-> <<>>]

(***************************************************************************)
(* <Arc as Approximate>::approximate                                       *)
(***************************************************************************)
\* a mutant of Degenerate that forgets the comparison with the radius
DegenerateToleranceOnly(self, tol) == FLe(tol, Zero)

\* the condition of the first branch
Degenerate(self, tol) == FLe(tol, Zero) \/ FLe(self.radius, tol)

CosThetaOnTwo(self, tol) == FSub(One, FDiv(tol, self.radius))

Theta(self, tol) == FMul(ACos(CosThetaOnTwo(self, tol)), Two)

ArcApproximate(self, tol) ==
    LET steps_delta ==
            IF Degenerate(self, tol)
            THEN <<1, self.sweep_angle>>
            ELSE LET theta == Theta(self, tol)
                     line_segment_count0 == FDiv(self.sweep_angle, theta)
                     line_segment_count == FMax(line_segment_count0, Two)
                     actual_step == FDiv(self.sweep_angle, line_segment_count)
                 IN  <<AsUsize(FAbs(FCeil(line_segment_count))), actual_step>>
    IN  [i |-> 0, steps |-> steps_delta[1], step_size |-> steps_delta[2],
         arc |-> self]

\* the arguments acos is called with during approximate(): none in the first
\* branch, cos_theta_on_two in the second
AcosArguments(self, tol) ==
    IF Degenerate(self, tol) THEN <<>> ELSE <<CosThetaOnTwo(self, tol)>>

(***************************************************************************)
(* <ApproximatedArc as Iterator>::next                                     *)
(***************************************************************************)
\* a mutant of ApproximatedArcNext that starts over once it is exhausted
ApproximatedArcNextRewinds(self) ==
    IF self.i > self.steps
    THEN [self |-> [self EXCEPT !.i = 0], item |-> <<>>, angle |-> <<>>]
    ELSE LET angle == FMul(F(self.i), self.step_size)
         IN  [self |-> [self EXCEPT !.i = self.i + 1],
              item |-> <<PointAt(self.arc, angle)>>, angle |-> <<angle>>]

\* the iterator after the call, the item returned (<<>> is None) and the
\* angle handed to point_at
ApproximatedArcNext(self) ==
    IF self.i > self.steps
    THEN [self |-> self, item |-> <<>>, angle |-> <<>>]
    ELSE LET angle == FMul(F(self.i), self.step_size)
         IN  [self |-> [self EXCEPT !.i = self.i + 1],
              item |-> <<PointAt(self.arc, angle)>>, angle |-> <<angle>>]

(***************************************************************************)
(* The state machine: a caller approximates the arc or the line once and   *)
(* then drives the iterator it got, also after it is exhausted.            *)
(***************************************************************************)
NoIter == [i |-> 0, steps |-> 0, step_size |-> Zero]

Init ==
    /\ arc \in Arcs
    /\ line \in Lines
    /\ tolerance \in Tolerances
    /\ pc = "start"
    /\ iter = NoIter
    /\ yielded = <<>>
    /\ swept = <<>>
    /\ nones = 0
    /\ acosCalls = <<>>

ApproximateArc ==
    /\ pc = "start"
    /\ pc' = "arc"
    /\ iter' = ArcApproximate(arc, tolerance)
    /\ acosCalls' = AcosArguments(arc, tolerance)
    /\ UNCHANGED <<arc, line, tolerance, yielded, swept, nones>>

ArcNext ==
    /\ pc = "arc"
    /\ nones < MaxNone
    /\ LET r == ApproximatedArcNext(iter)
       IN  /\ iter' = r.self
           /\ yielded' = yielded \o r.item
           /\ swept' = swept \o r.angle
           /\ nones' = IF r.item = <<>> THEN nones + 1 ELSE nones
    /\ UNCHANGED <<arc, line, tolerance, pc, acosCalls>>

ApproximateLine ==
    /\ pc = "start"
    /\ pc' = "line"
    /\ iter' = LineApproximate(line, tolerance)
    /\ UNCHANGED <<arc, line, tolerance, yielded, swept, nones, acosCalls>>

LineNext ==
    /\ pc = "line"
    /\ nones < MaxNone
    /\ LET r == ChainNext(iter)
       IN  /\ iter' = r.self
           /\ yielded' = yielded \o r.item
           /\ nones' = IF r.item = <<>> THEN nones + 1 ELSE nones
    /\ UNCHANGED <<arc, line, tolerance, pc, swept, acosCalls>>

Next == ApproximateArc \/ ArcNext \/ ApproximateLine \/ LineNext

Spec == Init /\ [][Next]_vars

TypeOK ==
    /\ arc \in Arcs /\ line \in Lines /\ tolerance \in Tolerances
    /\ pc \in {"start", "arc", "line"}
    /\ nones \in 0..MaxNone

(***************************************************************************)
(* Properties.                                                             *)
(***************************************************************************)

\* C1: for every arc and every tolerance >= 0 the first point yielded by
\* Arc::approximate is the arc's start point, start() = point_at(start_angle).
C1_FirstPointIsStart ==
    (pc = "arc" /\ FLe(Zero, tolerance) /\ Len(yielded) >= 1)
        => yielded[1] = ArcStart(arc)

\* C2: for every arc and every tolerance >= 0 the angle swept at the final
\* index i = n, which gives the last point yielded, is n * delta = S exactly.
C2_LastSweptAngleIsSweep ==
    (pc = "arc" /\ FLe(Zero, tolerance) /\ nones > 0)
        => /\ swept[Len(swept)] = arc.sweep_angle
           /\ FMul(F(iter.steps), iter.step_size) = arc.sweep_angle

\* C3: in the general branch (radius > tolerance > 0), for every signed sweep
\* S, |delta| <= theta and n >= |S| / theta, theta = 2 acos(1 - T/R).
C3_StepWithinTheta ==
    (pc = "arc" /\ ~FLe(tolerance, Zero) /\ ~FLe(arc.radius, tolerance))
        => LET theta == Theta(arc, tolerance)
           IN  /\ FLe(FAbs(iter.step_size), theta)
               /\ FLe(FDiv(FAbs(arc.sweep_angle), theta), F(iter.steps))

\* C4: when tolerance <= 0 or radius <= tolerance the generator has exactly 1
\* step, its delta is the whole sweep S and it yields exactly 2 points; in
\* every other case it has at least 2 steps and yields at least 3 points.
C4_MinimumCardinality ==
    pc = "arc" =>
        IF FLe(tolerance, Zero) \/ FLe(arc.radius, tolerance)
        THEN /\ iter.steps = 1
             /\ iter.step_size = arc.sweep_angle
             /\ Len(yielded) <= 2
             /\ (nones > 0 => Len(yielded) = 2)
        ELSE /\ iter.steps >= 2
             /\ (nones > 0 => Len(yielded) >= 3)

\* C4 witness: a general-branch arc with zero sweep has been drained and has
\* yielded three points.
C4_Witness ==
    /\ pc = "arc" /\ nones > 0
    /\ ~FLe(tolerance, Zero) /\ ~FLe(arc.radius, tolerance)
    /\ arc.sweep_angle = Zero
    /\ Len(yielded) = 3

\* C5: a generator with step count n and delta D yields exactly n + 1 points
\* before it reports exhaustion, i grows by one per yield, and the k-th point
\* (k = 0..n) is the arc's point after sweeping k * D from its start.
C5_YieldsSweptPoints ==
    pc = "arc" =>
        /\ iter.i = Len(yielded)
        /\ Len(yielded) <= iter.steps + 1
        /\ (nones > 0 => Len(yielded) = iter.steps + 1)
        /\ \A k \in 1..Len(yielded) :
              yielded[k] = PointAt(arc, FAdd(arc.start_angle,
                                             FMul(F(k - 1), iter.step_size)))

\* C6 as stated: when tolerance > 2 * radius, acos is called with an argument
\* outside [-1, 1] and its non-numeric result reaches the step delta.
C6_AcosOutOfDomain ==
    (pc = "arc" /\ ~FLe(tolerance, FMul(Two, arc.radius)))
        => /\ acosCalls # <<>>
           /\ \A k \in 1..Len(acosCalls) :
                 ~(FLe(FNeg(One), acosCalls[k]) /\ FLe(acosCalls[k], One))
           /\ IsNaN(iter.step_size)

\* C6 amended: when tolerance > 2 * radius the first branch is taken (then
\* tolerance <= 0 or radius <= tolerance), acos is not called, the generator
\* has 1 step of delta S and no non-numeric angle reaches the points; whenever
\* acos is called its argument lies in [-1, 1].
C6_NoAcosBeyondTwiceRadius ==
    pc = "arc" =>
        /\ \A k \in 1..Len(acosCalls) :
              FLe(FNeg(One), acosCalls[k]) /\ FLe(acosCalls[k], One)
        /\ ~FLe(tolerance, FMul(Two, arc.radius)) =>
              /\ acosCalls = <<>>
              /\ iter.steps = 1
              /\ iter.step_size = arc.sweep_angle
              /\ \A k \in 1..Len(swept) : IsFinite(swept[k])

\* C6 witness: an arc of radius 50 approximated with tolerance 250 has been
\* drained.
C6_Witness ==
    /\ pc = "arc" /\ nones > 0
    /\ arc.radius = F(50) /\ tolerance = F(250)
    /\ Len(yielded) = 2

\* C7: in both branches the sign of the per-step delta stored in the generator
\* is the sign of the arc's sweep angle (zero for S = 0).
C7_DirectionPreserved ==
    pc = "arc" =>
        /\ IsFinite(iter.step_size)
        /\ Sgn(iter.step_size[1]) = Sgn(arc.sweep_angle[1])

\* C7 witness: a general-branch generator for a negative sweep.
C7_Witness ==
    /\ pc = "arc"
    /\ ~FLe(tolerance, Zero) /\ ~FLe(arc.radius, tolerance)
    /\ arc.sweep_angle[1] < 0
    /\ iter.step_size[1] < 0

\* C8: for every line (also start = end) and every tolerance, Line::approximate
\* yields start, then end, and is then exhausted.
C8_LineExactness ==
    pc = "line" =>
        /\ Len(yielded) <= 2
        /\ yielded = SubSeq(<<line.start, line.end>>, 1, Len(yielded))
        /\ (nones > 0 => yielded = <<line.start, line.end>>)

\* C8 witness: a degenerate line approximated with a negative tolerance has
\* been drained.
C8_Witness ==
    /\ pc = "line" /\ nones > 0
    /\ line.start = line.end
    /\ tolerance[1] < 0
    /\ Len(yielded) = 2

\* C9: in the general branch the arcs with sweep S and -S get the same step
\* count n = ceil(max(|S| / theta, 2)) and opposite deltas.
C9_StepCountFromMagnitude ==
    (pc = "arc" /\ ~FLe(tolerance, Zero) /\ ~FLe(arc.radius, tolerance))
        => LET mirror == ArcApproximate(
                   [arc EXCEPT !.sweep_angle = FNeg(arc.sweep_angle)], tolerance)
               theta == Theta(arc, tolerance)
           IN  /\ iter.steps = mirror.steps
               /\ iter.step_size = FNeg(mirror.step_size)
               /\ iter.steps = AsUsize(FCeil(
                      FMax(FDiv(FAbs(arc.sweep_angle), theta), Two)))

\* C10: 0 <= i <= n + 1 always; once next() has returned None, i = n + 1 and
\* every later call returns None again and changes nothing; no call changes
\* n, the delta or the arc.
C10_ExhaustedIsAbsorbing ==
    /\ [](pc = "arc" => /\ iter.i \in 0..(iter.steps + 1)
                        /\ (nones > 0 => iter.i = iter.steps + 1))
    /\ [][pc = "arc" =>
            /\ iter'.steps = iter.steps
            /\ iter'.step_size = iter.step_size
            /\ iter'.arc = iter.arc
            /\ (nones > 0 => /\ iter' = iter
                             /\ yielded' = yielded
                             /\ nones' = nones + 1)]_vars

\* C10 witness: next() has returned None twice on a generator of several
\* steps.
C10_Witness ==
    /\ pc = "arc" /\ nones >= 2
    /\ iter.steps >= 3
    /\ iter.i = iter.steps + 1

====
